---------------------------- MODULE Spec2Model ----------------------------
(***************************************************************************)
(* AMBER/mesmy.py: a command-line tool that loads an Amber coordinate and  *)
(* topology pair, counts the non-water residues, and prints a bash script  *)
(* driving a nine-step relaxation/equilibration workflow.                  *)
(*                                                                         *)
(* Three specifications share this module:                                 *)
(*   Spec      one run of mesmy_cli (parse, load, select, print);          *)
(*   SpecShell bash reading the printed script line by line;               *)
(*   SpecLoop  the statements of the two driving loops, executed as        *)
(*             written, against an arbitrary set of stepN.out files.       *)
(*                                                                         *)
(* Text is modelled as a sequence of lines; a line is its indentation (the *)
(* number of leading blanks) and a sequence of pieces.  A piece is literal *)
(* text, a decimal number (its integer and fraction digits), a shell       *)
(* parameter reference ($name), the head of an assignment (name=) or a     *)
(* replacement field of the Python f-string.  Quotes, a comment's "#" and  *)
(* the blanks before it are pieces of their own.  Concatenating the pieces *)
(* of a line gives its bytes.                                              *)
(***************************************************************************)
EXTENDS Integers, Sequences, FiniteSets, TLC

VARIABLES
  \* ---- mesmy_cli
  pc,        \* position in mesmy_cli
  argv,      \* command-line items not yet consumed by parse_args
  args,      \* the argparse namespace
  reads,     \* the paths handed to mdt.load so far
  t,         \* the loaded trajectory's residues (<<>> before the load)
  nres,      \* t_solute.n_residues (-1 before it is computed)
  stdout,    \* the lines printed on standard output
  stderr,    \* the diagnostics printed on standard error
  exitcode,  \* the process's exit status (-1 while it runs)
  \* ---- bash reading the printed script
  script,    \* the script text bash reads
  lineno,    \* the number of lines read so far
  mode,      \* "idle", "top", "heredoc" or "end"
  target,    \* the step whose .in file the open here-document feeds (0: none)
  body,      \* the lines collected for the open here-document
  infiles,   \* stepN.in files written: step number -> lines
  scanned,   \* per line read: "top" or "body"
  written,   \* per line read as here-document text: its expansion (else <<>>)
  warned,    \* bash warned of a here-document delimited by end-of-file
  \* ---- shell parameters and the driving loops
  env,       \* shell parameters: name -> value (a sequence of pieces)
  lpc,       \* position in the driving loops
  run,       \* index in 1..9 of the loop variable RUN
  out,       \* stepN.out files: step number -> "absent", "nomarker", "marker"
  out0,      \* the stepN.out files as the current execution found them
  invoked,   \* the steps the engine was run for in this execution, in order
  command,   \* the argument list of the latest engine run (<<>>: none yet)
  status,    \* the script's exit status (-1 while it runs)
  execs      \* number of executions of the script started

cliVars   == <<pc, argv, args, reads, t, nres, stdout, stderr, exitcode>>
shellVars == <<script, lineno, mode, target, body, infiles, scanned, written, warned>>
loopVars  == <<lpc, run, out, out0, invoked, command, status, execs>>
vars      == <<cliVars, shellVars, env, loopVars>>

----------------------------------------------------------------------------
(* Bounds of the model. *)
MaxArgs  == 3   \* command-line items per invocation
MaxRes   == 3   \* residues per structure
MaxAtoms == 2   \* atoms per residue
MaxExecs == 2   \* executions of the generated script in a row

----------------------------------------------------------------------------
(* Text. *)
L(s)    == <<"L", s>>
N(i, f) == <<"N", i, f>>
V(n)    == <<"V", n>>
A(n)    == <<"A", n>>
F(n)    == <<"F", n>>
BQ      == <<"B", "">>   \* a backquote character
Ln(ind, txt) == [ind |-> ind, txt |-> txt]

Kind(p) == p[1]

RECURSIVE Digits(_)
\* str(n) for n >= 0: the decimal digits, most significant first
Digits(n) == IF n < 10 THEN <<n>> ELSE Append(Digits(n \div 10), n % 10)

RECURSIVE Flatten(_)
Flatten(ss) == IF ss = <<>> THEN <<>> ELSE Head(ss) \o Flatten(Tail(ss))

----------------------------------------------------------------------------
(* The script template: the f-string of mesmy_cli, line by line, with the   *)
(* line continuations of the Python literal (a backslash before the line    *)
(* break) already joined, as Python joins them.  Each line is preceded by   *)
(* its number in the output and the source line(s) it comes from.           *)
Template ==
  <<
  \* 1 (source line 25)
  Ln(0, <<L("#"), L("!/bin/bash")>>),
  \* 2 (source line 26)
  Ln(0, <<>>),
  \* 3 (source line 27)
  Ln(4, <<L("#"), L(" An equilibration workflow.")>>),
  \* 4 (source line 28)
  Ln(4, <<L("#"), L(" Designed for "), L("\""), L("standard"), L("\""), L(" protein or protein/ligand systems")>>),
  \* 5 (source line 29)
  Ln(4, <<L("#"), L(" in explicit solvent. Not optimised for membrane protein systems.")>>),
  \* 6 (source line 30)
  Ln(4, <<L("#")>>),
  \* 7 (source line 31)
  Ln(4, <<L("#"), L(" Developed from scripts provided by the Hughes lab at the University")>>),
  \* 8 (source line 32)
  Ln(4, <<L("#"), L(" of Montana.")>>),
  \* 9 (source line 33)
  Ln(4, <<L("#")>>),
  \* 10 (source line 34)
  Ln(0, <<>>),
  \* 11 (source line 35)
  Ln(4, <<L("#"), L(" You may wish to modify some of the parameters below.")>>),
  \* 12 (source line 36)
  Ln(4, <<A("prmtop_file"), L("\""), F("prmtop"), L("\"")>>),
  \* 13 (source line 37)
  Ln(4, <<A("inpcrd_file"), L("\""), F("inpcrd"), L("\"")>>),
  \* 14 (source line 38)
  Ln(4, <<A("solute"), F("nres"), L(" "), L("#"), L(" number of residues in solute")>>),
  \* 15 (source line 39)
  Ln(4, <<A("T"), L("\""), N(<<3, 1, 0>>, <<0>>), L("\""), L(" "), L("#"), L(" target temperature in K")>>),
  \* 16 (source line 40)
  Ln(4, <<A("PMEMD"), L("\""), L("pmemd.cuda"), L("\""), L(" "), L("#"), L(" name of your MD executable (e.g. may be "), L("\""), L("pmemd.MPI"), L("\""), L(")")>>),
  \* 17 (source line 41)
  Ln(0, <<>>),
  \* 18 (source line 42)
  Ln(4, <<L("#"), L("## DO NOT MODIFY BELOW THIS LINE UNLESS YOU KNOW WHAT YOU ARE DOING"), L(" "), L("#"), L("##")>>),
  \* 19 (source line 43)
  Ln(4, <<L("#"), L(" "), N(<<1>>, <<>>), L("K step energy minimization, strong restraints on heavy atoms, no shake")>>),
  \* 20 (source line 44)
  Ln(4, <<L("cat > step"), N(<<1>>, <<>>), L(".in <<EOF")>>),
  \* 21 (source line 45)
  Ln(4, <<L("Min with strong restraints on heavy atoms, no shake")>>),
  \* 22 (source line 46)
  Ln(4, <<L("&cntrl")>>),
  \* 23 (source line 47)
  Ln(4, <<L("imin = "), N(<<1>>, <<>>), L(", ncyc = "), N(<<5, 0>>, <<>>), L(", maxcyc = "), N(<<1, 0, 0, 0>>, <<>>), L(",")>>),
  \* 24 (source line 48)
  Ln(4, <<L("ntpr = "), N(<<5, 0>>, <<>>), L(",")>>),
  \* 25 (source line 49)
  Ln(4, <<L("ntr = "), N(<<1>>, <<>>), L(", restraintmask = "), L("'"), L(":"), N(<<1>>, <<>>), L("-"), V("solute"), L(" & !@H="), L("'"), L(", restraint_wt = "), N(<<5>>, <<0>>), L(",")>>),
  \* 26 (source line 50)
  Ln(4, <<L("&end")>>),
  \* 27 (source line 51)
  Ln(4, <<L("EOF")>>),
  \* 28 (source line 52)
  Ln(0, <<>>),
  \* 29 (source line 53)
  Ln(4, <<L("#"), L(" NVT MD with strong restraints on heavy atoms, shake, dt="), N(<<>>, <<0, 0, 1>>), L(", "), N(<<1, 5>>, <<>>), L(" ps")>>),
  \* 30 (source line 54)
  Ln(4, <<L("cat > step"), N(<<2>>, <<>>), L(".in <<EOF")>>),
  \* 31 (source line 55)
  Ln(4, <<L("NVT MD with strong restraints on heavy atoms, shake dt "), N(<<0>>, <<0, 0, 1>>), L(" "), N(<<1, 5>>, <<>>), L(" ps")>>),
  \* 32 (source line 56)
  Ln(4, <<L("&cntrl")>>),
  \* 33 (source line 57)
  Ln(4, <<L("imin = "), N(<<0>>, <<>>), L(", nstlim = "), N(<<3, 0, 0, 0, 0>>, <<>>), L(", dt="), N(<<0>>, <<0, 0, 1>>), L(",")>>),
  \* 34 (source line 58)
  Ln(4, <<L("ntpr = "), N(<<5, 0>>, <<>>), L(", ntwr = "), N(<<5, 0, 0>>, <<>>), L(",")>>),
  \* 35 (source line 59)
  Ln(4, <<L("iwrap = "), N(<<1>>, <<>>), L(",")>>),
  \* 36 (source line 60)
  Ln(4, <<L("ntc = "), N(<<2>>, <<>>), L(", ntf = "), N(<<2>>, <<>>), L(",")>>),
  \* 37 (source line 61)
  Ln(4, <<L("ntt = "), N(<<3>>, <<>>), L(", gamma_ln = "), N(<<5>>, <<>>), L(", temp"), N(<<0>>, <<>>), L(" = "), V("T"), L(", tempi = "), V("T"), L(",")>>),
  \* 38 (source line 62)
  Ln(4, <<L("ntr = "), N(<<1>>, <<>>), L(", restraintmask = "), L("'"), L(":"), N(<<1>>, <<>>), L("-"), V("solute"), L(" & !@H="), L("'"), L(", restraint_wt = "), N(<<5>>, <<0>>), L(",")>>),
  \* 39 (source line 63)
  Ln(4, <<L("&end")>>),
  \* 40 (source line 64)
  Ln(4, <<L("EOF")>>),
  \* 41 (source line 65)
  Ln(0, <<>>),
  \* 42 (source line 66)
  Ln(4, <<L("#"), L(" Energy minimization with relaxed restraints on heavy atoms, no shake")>>),
  \* 43 (source line 67)
  Ln(4, <<L("cat > step"), N(<<3>>, <<>>), L(".in <<EOF")>>),
  \* 44 (source line 68)
  Ln(4, <<L("Min with relaxed restraints on heavy atoms")>>),
  \* 45 (source line 69)
  Ln(4, <<L("&cntrl")>>),
  \* 46 (source line 70)
  Ln(4, <<L("imin = "), N(<<1>>, <<>>), L(", ncyc = "), N(<<5, 0>>, <<>>), L(", maxcyc = "), N(<<1, 0, 0, 0>>, <<>>), L(",")>>),
  \* 47 (source line 71)
  Ln(4, <<L("ntpr = "), N(<<5, 0>>, <<>>), L(",")>>),
  \* 48 (source line 72)
  Ln(4, <<L("ntr = "), N(<<1>>, <<>>), L(", restraintmask = "), L("'"), L(":"), N(<<1>>, <<>>), L("-"), V("solute"), L(" & !@H="), L("'"), L(", restraint_wt = "), N(<<2>>, <<0>>), L(",")>>),
  \* 49 (source line 73)
  Ln(4, <<L("&end")>>),
  \* 50 (source line 74)
  Ln(4, <<L("EOF")>>),
  \* 51 (source line 75)
  Ln(0, <<>>),
  \* 52 (source line 76)
  Ln(4, <<L("#"), L(" Energy minimization with minimal restraints on heavy atoms, no shake")>>),
  \* 53 (source line 77)
  Ln(4, <<L("cat > step"), N(<<4>>, <<>>), L(".in <<EOF")>>),
  \* 54 (source line 78)
  Ln(4, <<L("Min with minimal restraints on heavy atoms")>>),
  \* 55 (source line 79)
  Ln(4, <<L("&cntrl")>>),
  \* 56 (source line 80)
  Ln(4, <<L("imin = "), N(<<1>>, <<>>), L(", ncyc = "), N(<<5, 0>>, <<>>), L(", maxcyc = "), N(<<1, 0, 0, 0>>, <<>>), L(",")>>),
  \* 57 (source line 81)
  Ln(4, <<L("ntpr = "), N(<<5, 0>>, <<>>), L(",")>>),
  \* 58 (source line 82)
  Ln(4, <<L("ntr = "), N(<<1>>, <<>>), L(", restraintmask = "), L("'"), L(":"), N(<<1>>, <<>>), L("-"), V("solute"), L(" & !@H="), L("'"), L(", restraint_wt = "), N(<<0>>, <<1>>), L(",")>>),
  \* 59 (source line 83)
  Ln(4, <<L("&end")>>),
  \* 60 (source line 84)
  Ln(4, <<L("EOF")>>),
  \* 61 (source line 85)
  Ln(0, <<>>),
  \* 62 (source line 86)
  Ln(4, <<L("#"), L(" Energy minimization with no restraints, no shake")>>),
  \* 63 (source line 87)
  Ln(4, <<L("cat > step"), N(<<5>>, <<>>), L(".in <<EOF")>>),
  \* 64 (source line 88)
  Ln(4, <<L("Min with no restraints")>>),
  \* 65 (source line 89)
  Ln(4, <<L("&cntrl")>>),
  \* 66 (source line 90)
  Ln(4, <<L("imin = "), N(<<1>>, <<>>), L(", ncyc = "), N(<<5, 0>>, <<>>), L(", maxcyc = "), N(<<1, 0, 0, 0>>, <<>>), L(",")>>),
  \* 67 (source line 91)
  Ln(4, <<L("ntpr = "), N(<<5, 0>>, <<>>), L(",")>>),
  \* 68 (source line 92)
  Ln(4, <<L("&end")>>),
  \* 69 (source line 93)
  Ln(4, <<L("EOF")>>),
  \* 70 (source line 94)
  Ln(0, <<>>),
  \* 71 (source line 95)
  Ln(4, <<L("#"), L(" NPT MD with shake and low restraints on heavy atoms, "), N(<<2, 0>>, <<>>), L(" ps dt="), N(<<>>, <<0, 0, 2>>)>>),
  \* 72 (source line 96)
  Ln(4, <<L("cat > step"), N(<<6>>, <<>>), L(".in <<EOF")>>),
  \* 73 (source line 97)
  Ln(4, <<L("NPT MD with shake and low restraints on heavy atoms, "), N(<<2, 0>>, <<>>), L(" ps dt="), N(<<>>, <<0, 0, 2>>)>>),
  \* 74 (source line 98)
  Ln(4, <<L("&cntrl")>>),
  \* 75 (source line 99)
  Ln(4, <<L("imin = "), N(<<0>>, <<>>), L(", nstlim = "), N(<<1, 0, 0, 0, 0>>, <<>>), L(", dt = "), N(<<0>>, <<0, 0, 2>>), L(",")>>),
  \* 76 (source line 100)
  Ln(4, <<L("ntwx = "), N(<<1, 0, 0, 0>>, <<>>), L(", ntpr = "), N(<<5, 0>>, <<>>), L(", ntwr = "), N(<<5, 0, 0>>, <<>>), L(",")>>),
  \* 77 (source line 101)
  Ln(4, <<L("iwrap = "), N(<<1>>, <<>>), L(",")>>),
  \* 78 (source line 102)
  Ln(4, <<L("ntc = "), N(<<2>>, <<>>), L(", ntf = "), N(<<2>>, <<>>), L(", ntb = "), N(<<2>>, <<>>), L(",")>>),
  \* 79 (source line 103)
  Ln(4, <<L("ntt = "), N(<<3>>, <<>>), L(", gamma_ln = "), N(<<5>>, <<>>), L(", temp"), N(<<0>>, <<>>), L(" = "), V("T"), L(", tempi = "), V("T"), L(",")>>),
  \* 80 (source line 104)
  Ln(4, <<L("ntp = "), N(<<1>>, <<>>), L(", taup = "), N(<<1>>, <<0>>), L(",")>>),
  \* 81 (source line 105)
  Ln(4, <<L("ntr = "), N(<<1>>, <<>>), L(", restraintmask = "), L("'"), L(":"), N(<<1>>, <<>>), L("-"), V("solute"), L(" & !@H="), L("'"), L(", restraint_wt = "), N(<<1>>, <<0>>), L(",")>>),
  \* 82 (source line 106)
  Ln(4, <<L("&end")>>),
  \* 83 (source line 107)
  Ln(4, <<L("EOF")>>),
  \* 84 (source line 108)
  Ln(0, <<>>),
  \* 85 (source line 109)
  Ln(4, <<L("#"), L(" NPT MD with shake and minimal restraints on heavy atoms")>>),
  \* 86 (source line 110)
  Ln(4, <<L("cat > step"), N(<<7>>, <<>>), L(".in <<EOF")>>),
  \* 87 (source line 111)
  Ln(4, <<L("NPT MD with minimal restraints on heavy atoms, "), N(<<2, 0>>, <<>>), L(" ps dt="), N(<<>>, <<0, 0, 2>>)>>),
  \* 88 (source line 112)
  Ln(4, <<L("&cntrl")>>),
  \* 89 (source line 113)
  Ln(4, <<L("imin = "), N(<<0>>, <<>>), L(", nstlim = "), N(<<1, 0, 0, 0, 0>>, <<>>), L(", dt="), N(<<0>>, <<0, 0, 2>>), L(",")>>),
  \* 90 (source line 114)
  Ln(4, <<L("ntx = "), N(<<5>>, <<>>), L(", irest = "), N(<<1>>, <<>>), L(",")>>),
  \* 91 (source line 115)
  Ln(4, <<L("ntwx = "), N(<<1, 0, 0, 0>>, <<>>), L(", ntpr = "), N(<<5, 0>>, <<>>), L(", ntwr = "), N(<<5, 0, 0>>, <<>>), L(",")>>),
  \* 92 (source line 116)
  Ln(4, <<L("iwrap = "), N(<<1>>, <<>>), L(",")>>),
  \* 93 (source line 117)
  Ln(4, <<L("ntc = "), N(<<2>>, <<>>), L(", ntf = "), N(<<2>>, <<>>), L(", ntb = "), N(<<2>>, <<>>), L(",")>>),
  \* 94 (source line 118)
  Ln(4, <<L("ntt = "), N(<<3>>, <<>>), L(", gamma_ln = "), N(<<5>>, <<>>), L(", temp"), N(<<0>>, <<>>), L(" = "), V("T"), L(", tempi = "), V("T"), L(",")>>),
  \* 95 (source line 119)
  Ln(4, <<L("ntp = "), N(<<1>>, <<>>), L(", taup = "), N(<<1>>, <<0>>), L(",")>>),
  \* 96 (source line 120)
  Ln(4, <<L("ntr = "), N(<<1>>, <<>>), L(", restraintmask = "), L("'"), L(":"), N(<<1>>, <<>>), L("-"), V("solute"), L(" & !@H="), L("'"), L(", restraint_wt = "), N(<<0>>, <<5>>), L(",")>>),
  \* 97 (source line 121)
  Ln(4, <<L("&end")>>),
  \* 98 (source line 122)
  Ln(4, <<L("EOF")>>),
  \* 99 (source line 123)
  Ln(0, <<>>),
  \* 100 (source line 124)
  Ln(4, <<L("#"), L(" NPT MD, shake and minimal restraints on backbone atoms, dt="), N(<<0>>, <<0, 0, 2>>), L(", "), N(<<2, 0>>, <<>>), L(" ps")>>),
  \* 101 (source line 125)
  Ln(4, <<L("cat > step"), N(<<8>>, <<>>), L(".in <<EOF")>>),
  \* 102 (source line 126)
  Ln(4, <<L("NPT MD with minimal restraints on backbone atoms, "), N(<<2, 0>>, <<>>), L(" ps dt="), N(<<>>, <<0, 0, 2>>)>>),
  \* 103 (source line 127)
  Ln(4, <<L("&cntrl")>>),
  \* 104 (source line 128)
  Ln(4, <<L("imin = "), N(<<0>>, <<>>), L(", nstlim = "), N(<<1, 0, 0, 0, 0>>, <<>>), L(", dt="), N(<<0>>, <<0, 0, 2>>), L(",")>>),
  \* 105 (source line 129)
  Ln(4, <<L("ntx = "), N(<<5>>, <<>>), L(", irest = "), N(<<1>>, <<>>), L(",")>>),
  \* 106 (source line 130)
  Ln(4, <<L("ntwx = "), N(<<1, 0, 0, 0>>, <<>>), L(", ntpr = "), N(<<5, 0>>, <<>>), L(", ntwr = "), N(<<5, 0, 0>>, <<>>), L(",")>>),
  \* 107 (source line 131)
  Ln(4, <<L("iwrap = "), N(<<1>>, <<>>), L(",")>>),
  \* 108 (source line 132)
  Ln(4, <<L("ntc = "), N(<<2>>, <<>>), L(", ntf = "), N(<<2>>, <<>>), L(", ntb = "), N(<<2>>, <<>>), L(",")>>),
  \* 109 (source line 133)
  Ln(4, <<L("ntt = "), N(<<3>>, <<>>), L(", gamma_ln = "), N(<<5>>, <<>>), L(", temp"), N(<<0>>, <<>>), L(" = "), V("T"), L(", tempi = "), V("T"), L(",")>>),
  \* 110 (source line 134)
  Ln(4, <<L("ntp = "), N(<<1>>, <<>>), L(", taup = "), N(<<1>>, <<0>>), L(",")>>),
  \* 111 (source line 135)
  Ln(4, <<L("ntr = "), N(<<1>>, <<>>), L(", restraintmask = "), L("\""), L(":"), N(<<1>>, <<>>), L("-"), V("solute"), L("@H,N,CA,HA,C,O"), L("\""), L(", restraint_wt = "), N(<<0>>, <<5>>), L(",")>>),
  \* 112 (source line 136)
  Ln(4, <<L("&end")>>),
  \* 113 (source line 137)
  Ln(4, <<L("EOF")>>),
  \* 114 (source line 138)
  Ln(0, <<>>),
  \* 115 (source line 139)
  Ln(4, <<L("#"), L(" NPT MD with shake and no restraints, dt="), N(<<0>>, <<0, 0, 2>>), L(", "), N(<<2, 0, 0>>, <<>>), L(" ps")>>),
  \* 116 (source line 140)
  Ln(4, <<L("cat > step"), N(<<9>>, <<>>), L(".in <<EOF")>>),
  \* 117 (source line 141)
  Ln(4, <<L("NPT MD no restraints, dt="), N(<<0>>, <<0, 0, 2>>), L(", "), N(<<2, 0, 0>>, <<>>), L(" ps")>>),
  \* 118 (source line 142)
  Ln(4, <<L("&cntrl")>>),
  \* 119 (source line 143)
  Ln(4, <<L("imin = "), N(<<0>>, <<>>), L(", nstlim = "), N(<<1, 0, 0, 0, 0>>, <<>>), L(", dt="), N(<<0>>, <<0, 0, 2>>), L(",")>>),
  \* 120 (source line 144)
  Ln(4, <<L("ntx = "), N(<<5>>, <<>>), L(", irest = "), N(<<1>>, <<>>), L(",")>>),
  \* 121 (source line 145)
  Ln(4, <<L("ntwx = "), N(<<1, 0, 0, 0>>, <<>>), L(", ntpr = "), N(<<5, 0>>, <<>>), L(", ntwr = "), N(<<5, 0, 0>>, <<>>), L(",")>>),
  \* 122 (source line 146)
  Ln(4, <<L("iwrap = "), N(<<1>>, <<>>), L(",")>>),
  \* 123 (source line 147)
  Ln(4, <<L("ntc = "), N(<<2>>, <<>>), L(", ntf = "), N(<<2>>, <<>>), L(", ntb = "), N(<<2>>, <<>>), L(",")>>),
  \* 124 (source line 148)
  Ln(4, <<L("ntt = "), N(<<3>>, <<>>), L(", gamma_ln = "), N(<<5>>, <<>>), L(", temp"), N(<<0>>, <<>>), L(" = "), V("T"), L(", tempi = "), V("T"), L(",")>>),
  \* 125 (source line 149)
  Ln(4, <<L("ntp = "), N(<<1>>, <<>>), L(", taup = "), N(<<1>>, <<0>>), L(",")>>),
  \* 126 (source line 150)
  Ln(4, <<L("&end")>>),
  \* 127 (source line 151)
  Ln(4, <<L("EOF")>>),
  \* 128 (source line 152)
  Ln(0, <<>>),
  \* 129 (source line 153)
  Ln(4, <<A("START"), L("\""), BQ, L("date +%s.%N"), BQ, L("\"")>>),
  \* 130 (source line 154)
  Ln(0, <<>>),
  \* 131 (source line 155)
  Ln(4, <<L("#"), L(" Minimization Phase - reference coords are updated each run")>>),
  \* 132 (source line 156)
  Ln(4, <<L("for RUN in step"), N(<<1>>, <<>>), L(" step"), N(<<2>>, <<>>), L(" step"), N(<<3>>, <<>>), L(" step"), N(<<4>>, <<>>), L(" step"), N(<<5>>, <<>>), L(" ; do")>>),
  \* 133 (source line 157)
  Ln(4, <<L("echo "), L("\""), L("------------------------"), L("\"")>>),
  \* 134 (source line 158)
  Ln(4, <<L("echo "), L("\""), L("Minimization phase: "), V("RUN"), L("\"")>>),
  \* 135 (source line 159)
  Ln(4, <<L("echo "), L("\""), L("------------------------"), L("\"")>>),
  \* 136 (source line 160)
  Ln(4, <<L("if [[ ! -f "), V("RUN"), L(".out ]]; then")>>),
  \* 137 (source line 161)
  Ln(8, <<L("echo "), L("\""), L("File -- "), V("RUN"), L(".out -- does not exists. Running job..."), L("\"")>>),
  \* 138 (source line 162)
  Ln(8, <<A("runme"), N(<<1>>, <<>>)>>),
  \* 139 (source line 163)
  Ln(4, <<L("else")>>),
  \* 140 (source line 164)
  Ln(8, <<L("grep -q "), L("'"), L("Total wall time"), L("'"), L(" "), V("RUN"), L(".out")>>),
  \* 141 (source line 165)
  Ln(8, <<A("retval"), V("?")>>),
  \* 142 (source line 166)
  Ln(8, <<L("if [ "), V("retval"), L(" -ne "), N(<<0>>, <<>>), L(" ]; then")>>),
  \* 143 (source line 167)
  Ln(8, <<L("echo "), L("\""), V("RUN"), L(" did not complete last time. Trying again..."), L("\"")>>),
  \* 144 (source line 168)
  Ln(8, <<A("runme"), N(<<1>>, <<>>)>>),
  \* 145 (source line 169)
  Ln(8, <<L("else")>>),
  \* 146 (source line 170)
  Ln(12, <<L("echo "), L("\""), V("RUN"), L(" has already completed.  Checking the next step."), L("\"")>>),
  \* 147 (source line 171)
  Ln(12, <<A("runme"), N(<<0>>, <<>>)>>),
  \* 148 (source line 172)
  Ln(8, <<L("fi")>>),
  \* 149 (source line 173)
  Ln(4, <<L("fi")>>),
  \* 150 (source line 174)
  Ln(0, <<>>),
  \* 151 (source line 175)
  Ln(4, <<L("if [ "), V("runme"), L(" -eq "), N(<<1>>, <<>>), L(" ]; then")>>),
  \* 152 (source line 176-178)
  Ln(8, <<V("PMEMD"), L(" -O -i "), V("RUN"), L(".in -p "), V("prmtop_file"), L(" -c "), V("inpcrd_file"), L("         -ref "), V("inpcrd_file"), L(" -o "), V("RUN"), L(".out -x "), V("RUN"), L(".nc -r "), V("RUN"), L(".ncrst             -inf "), V("RUN"), L(".mdinfo")>>),
  \* 153 (source line 179)
  Ln(8, <<L("grep -q "), L("'"), L("Total wall time"), L("'"), L(" "), V("RUN"), L(".out")>>),
  \* 154 (source line 180)
  Ln(8, <<A("retval"), V("?")>>),
  \* 155 (source line 181)
  Ln(8, <<L("if [ "), V("retval"), L(" -ne "), N(<<0>>, <<>>), L(" ]; then")>>),
  \* 156 (source line 182)
  Ln(12, <<L("echo "), L("\""), L("Error - job failed at this step."), L("\"")>>),
  \* 157 (source line 183)
  Ln(8, <<L("exit "), V("retval")>>),
  \* 158 (source line 184)
  Ln(8, <<L("fi")>>),
  \* 159 (source line 185)
  Ln(4, <<L("fi")>>),
  \* 160 (source line 186)
  Ln(0, <<>>),
  \* 161 (source line 187)
  Ln(4, <<L("echo "), L("\""), L("\"")>>),
  \* 162 (source line 188)
  Ln(4, <<A("inpcrd_file"), L("\""), V("RUN"), L(".ncrst"), L("\"")>>),
  \* 163 (source line 189)
  Ln(4, <<L("done")>>),
  \* 164 (source line 190)
  Ln(0, <<>>),
  \* 165 (source line 191)
  Ln(4, <<L("#"), L(" Equilibration phase: reference coords are last coords from minimize phase")>>),
  \* 166 (source line 192)
  Ln(4, <<A("REF"), V("inpcrd_file")>>),
  \* 167 (source line 193)
  Ln(4, <<L("for RUN in step"), N(<<6>>, <<>>), L(" step"), N(<<7>>, <<>>), L(" step"), N(<<8>>, <<>>), L(" step"), N(<<9>>, <<>>), L(" ; do")>>),
  \* 168 (source line 194)
  Ln(0, <<>>),
  \* 169 (source line 195)
  Ln(4, <<L("echo "), L("\""), L("------------------------"), L("\"")>>),
  \* 170 (source line 196)
  Ln(4, <<L("echo "), L("\""), L("Equilibration phase: "), V("RUN"), L("\"")>>),
  \* 171 (source line 197)
  Ln(4, <<L("echo "), L("\""), L("------------------------"), L("\"")>>),
  \* 172 (source line 198)
  Ln(4, <<L("if [[ ! -f "), V("RUN"), L(".out ]]; then")>>),
  \* 173 (source line 199)
  Ln(8, <<L("echo "), L("\""), L("File -- "), V("RUN"), L(".out -- does not exists. Running job..."), L("\"")>>),
  \* 174 (source line 200)
  Ln(8, <<A("runme"), N(<<1>>, <<>>)>>),
  \* 175 (source line 201)
  Ln(4, <<L("else")>>),
  \* 176 (source line 202)
  Ln(8, <<L("grep -q "), L("'"), L("Total wall time"), L("'"), L(" "), V("RUN"), L(".out")>>),
  \* 177 (source line 203)
  Ln(8, <<A("retval"), V("?")>>),
  \* 178 (source line 204)
  Ln(8, <<L("if [ "), V("retval"), L(" -ne "), N(<<0>>, <<>>), L(" ]; then")>>),
  \* 179 (source line 205)
  Ln(8, <<L("echo "), L("\""), V("RUN"), L(" did not complete last time. Trying again..."), L("\"")>>),
  \* 180 (source line 206)
  Ln(8, <<A("runme"), N(<<1>>, <<>>)>>),
  \* 181 (source line 207)
  Ln(8, <<L("else")>>),
  \* 182 (source line 208)
  Ln(12, <<L("echo "), L("\""), V("RUN"), L(" has already completed.  Checking the next step."), L("\"")>>),
  \* 183 (source line 209)
  Ln(12, <<A("runme"), N(<<0>>, <<>>)>>),
  \* 184 (source line 210)
  Ln(8, <<L("fi")>>),
  \* 185 (source line 211)
  Ln(4, <<L("fi")>>),
  \* 186 (source line 212)
  Ln(0, <<>>),
  \* 187 (source line 213)
  Ln(4, <<L("if [ "), V("runme"), L(" -eq "), N(<<1>>, <<>>), L(" ]; then")>>),
  \* 188 (source line 214-215)
  Ln(8, <<V("PMEMD"), L(" -O -i "), V("RUN"), L(".in -p "), V("prmtop_file"), L(" -c "), V("inpcrd_file"), L("        -ref "), V("REF"), L(" -o "), V("RUN"), L(".out -x "), V("RUN"), L(".nc -r "), V("RUN"), L(".ncrst -inf "), V("RUN"), L(".mdinfo")>>),
  \* 189 (source line 216)
  Ln(8, <<L("grep -q "), L("'"), L("Total wall time"), L("'"), L(" "), V("RUN"), L(".out")>>),
  \* 190 (source line 217)
  Ln(8, <<A("retval"), V("?")>>),
  \* 191 (source line 218)
  Ln(8, <<L("if [ "), V("retval"), L(" -ne "), N(<<0>>, <<>>), L(" ]; then")>>),
  \* 192 (source line 219)
  Ln(12, <<L("echo "), L("\""), L("Error - job failed at this step."), L("\"")>>),
  \* 193 (source line 220)
  Ln(8, <<L("exit "), V("retval")>>),
  \* 194 (source line 221)
  Ln(8, <<L("fi")>>),
  \* 195 (source line 222)
  Ln(4, <<L("fi")>>),
  \* 196 (source line 223)
  Ln(0, <<>>),
  \* 197 (source line 224)
  Ln(4, <<L("echo "), L("\""), L("\"")>>),
  \* 198 (source line 225)
  Ln(4, <<A("inpcrd_file"), L("\""), V("RUN"), L(".ncrst"), L("\"")>>),
  \* 199 (source line 226)
  Ln(4, <<L("done")>>),
  \* 200 (source line 227)
  Ln(0, <<>>),
  \* 201 (source line 228)
  Ln(4, <<L("#"), L(" Reset the time in the restart file to zero:")>>),
  \* 202 (source line 229)
  Ln(4, <<L("sed -i "), L("'"), L("s/"), N(<<0>>, <<3, 0, 0, 0, 0, 0, 0>>), L("E+"), N(<<0, 2>>, <<>>), L("/"), N(<<0>>, <<0, 0, 0, 0, 0, 0, 0>>), L("E+"), N(<<0, 0>>, <<>>), L("/g"), L("'"), L(" step"), N(<<9>>, <<>>), L(".ncrst")>>),
  \* 203 (source line 230)
  Ln(0, <<>>),
  \* 204 (source line 231)
  Ln(4, <<A("STOP"), L("\""), BQ, L("date +%s.%N"), BQ, L("\"")>>),
  \* 205 (source line 232)
  Ln(4, <<L("#"), L(" The divide by "), N(<<1>>, <<>>), L(" in the line below is to overcome a bug in bc...")>>),
  \* 206 (source line 233)
  Ln(4, <<A("TIMING"), BQ, L("echo "), L("\""), L("scale="), N(<<1>>, <<>>), L("; ("), V("STOP"), L(" - "), V("START"), L(") / "), N(<<1>>, <<>>), L(";"), L("\""), L(" | bc"), BQ>>),
  \* 207 (source line 234)
  Ln(4, <<L("echo "), L("\""), L("Total run time: "), V("TIMING"), L(" seconds."), L("\"")>>),
  \* 208 (source line 235)
  Ln(4, <<L("echo "), L("\""), L("\"")>>),
  \* 209 (source line 236)
  Ln(0, <<>>),
  \* 210 (source line 237)
  Ln(4, <<L("exit "), N(<<0>>, <<>>)>>),
  \* 211 (source line 238)
  Ln(4, <<>>)
  >>

----------------------------------------------------------------------------
(* mesmy_cli. *)
None == <<"None">>

__version__ == <<N(<<1>>, <<0>>), N(<<>>, <<0>>)>>

\* Paths a user may give: one plain, one with a blank in it.  Words are free of
\* quotes, "$", backslashes and glob characters.
Paths == { <<L("sys.crd")>>, <<L("my"), L(" "), L("sys.top")>> }

\* a plain pair and a pair with blanks
PathPairs ==
  { [inpcrd |-> <<L("sys.crd")>>, prmtop |-> <<L("sys.top")>>],
    [inpcrd |-> <<L("my"), L(" "), L("sys.crd")>>,
     prmtop |-> <<L("my"), L(" "), L("sys.top")>>] }

Items == [flag : {"-i", "-p"}, val : Paths] \cup {[flag |-> "--version", val |-> None]}

Invocations == UNION {[1..n -> Items] : n \in 0..MaxArgs}

Residues == [water : BOOLEAN, natoms : 1..MaxAtoms]

\* What mdt.load may return: the residues of the file, in file order.
Structures == UNION {[1..n -> Residues] : n \in 1..MaxRes}

\* residue index of every atom, in file order
AtomResidues(top) ==
  Flatten([r \in 1..Len(top) |-> [a \in 1..top[r].natoms |-> r]])

\* faulty variant of select_not_water: the water atoms are selected
select_water(top) ==
  LET ar == AtomResidues(top)
  IN  SelectSeq([a \in 1..Len(ar) |-> a], LAMBDA a : top[ar[a]].water)

\* topology.select('not water'): the indices of the atoms whose residue is not water
select_not_water(top) ==
  LET ar == AtomResidues(top)
  IN  SelectSeq([a \in 1..Len(ar) |-> a], LAMBDA a : ~top[ar[a]].water)

\* atom_slice: the residues that keep at least one atom, each with the atoms kept
atom_slice(top, idx) ==
  LET ar   == AtomResidues(top)
      kept(r) == Cardinality({k \in 1..Len(idx) : ar[idx[k]] = r})
      all  == [r \in 1..Len(top) |-> [water |-> top[r].water, natoms |-> kept(r)]]
  IN  SelectSeq(all, LAMBDA res : res.natoms > 0)

\* faulty variant of n_residues: the atoms are counted
n_atoms(top) == Len(AtomResidues(top))

n_residues(top) == Len(top)

\* faulty variant of FieldValue: the two paths change places
FieldValueSwapped(name, ns, n) ==
  CASE name = "prmtop" -> ns.inpcrd
    [] name = "inpcrd" -> ns.prmtop
    [] name = "nres"   -> <<N(Digits(n), <<>>)>>

\* The f-string: each replacement field gives way to its value's str().
FieldValue(name, ns, n) ==
  CASE name = "prmtop" -> ns.prmtop
    [] name = "inpcrd" -> ns.inpcrd
    [] name = "nres"   -> <<N(Digits(n), <<>>)>>

RenderLine(line, ns, n) ==
  Ln(line.ind,
     Flatten([k \in 1..Len(line.txt) |->
                IF Kind(line.txt[k]) = "F"
                  THEN FieldValue(line.txt[k][2], ns, n)
                  ELSE <<line.txt[k]>>]))

Render(ns, n) == [k \in 1..Len(Template) |-> RenderLine(Template[k], ns, n)]

\* the parameters the generated script uses
ShellNames ==
  {"prmtop_file", "inpcrd_file", "solute", "T", "PMEMD", "RUN", "runme",
   "retval", "REF", "START", "STOP", "TIMING", "?"}

Zero == <<N(<<0>>, <<>>)>>

\* a fresh shell: nothing set, $? is 0
FreshEnv == [n \in ShellNames |-> IF n = "?" THEN Zero ELSE <<>>]

CliIdle ==
  /\ pc = "idle" /\ argv = <<>> /\ args = [inpcrd |-> None, prmtop |-> None]
  /\ reads = {} /\ t = <<>> /\ nres = -1
  /\ stdout = <<>> /\ stderr = <<>> /\ exitcode = -1

ShellIdle ==
  /\ script = <<>> /\ lineno = 0 /\ mode = "idle" /\ target = 0 /\ body = <<>>
  /\ infiles = <<>> /\ scanned = <<>> /\ written = <<>> /\ warned = FALSE

LoopIdle ==
  /\ lpc = "idle" /\ run = 0 /\ out = <<>> /\ out0 = <<>> /\ invoked = <<>> /\ command = <<>>
  /\ status = -1
  /\ execs = 0

notCli == <<shellVars, env, loopVars>>

Init ==
  /\ pc = "parse"
  /\ argv \in Invocations
  /\ args = [inpcrd |-> None, prmtop |-> None]
  /\ reads = {} /\ t = <<>> /\ nres = -1
  /\ stdout = <<>> /\ stderr = <<>> /\ exitcode = -1
  /\ ShellIdle /\ env = FreshEnv /\ LoopIdle

\* parse_args meets -i PATH or -p PATH: the value is stored (the last one wins)
ParseOption ==
  /\ pc = "parse" /\ argv # <<>> /\ Head(argv).flag \in {"-i", "-p"}
  /\ args' = IF Head(argv).flag = "-i"
               THEN [args EXCEPT !.inpcrd = Head(argv).val]
               ELSE [args EXCEPT !.prmtop = Head(argv).val]
  /\ argv' = Tail(argv)
  /\ UNCHANGED <<pc, reads, t, nres, stdout, stderr, exitcode>>
  /\ UNCHANGED notCli

\* parse_args meets --version: the version action prints and exits at once
ParseVersion ==
  /\ pc = "parse" /\ argv # <<>> /\ Head(argv).flag = "--version"
  /\ stdout' = Append(stdout, Ln(0, __version__))
  /\ exitcode' = 0
  /\ pc' = "done"
  /\ UNCHANGED <<argv, args, reads, t, nres, stderr>>
  /\ UNCHANGED notCli

\* faulty variant of ParseEnd: no option is required
ParseEndNothingRequired ==
  /\ pc = "parse" /\ argv = <<>>
  /\ pc' = "load"
  /\ UNCHANGED <<argv, args, reads, t, nres, stdout, stderr, exitcode>>
  /\ UNCHANGED notCli

\* the command line is consumed: required options are checked
ParseEnd ==
  /\ pc = "parse" /\ argv = <<>>
  /\ IF args.inpcrd = None \/ args.prmtop = None
       THEN /\ stderr' = stderr \o <<"usage", "error: the following arguments are required">>
            /\ exitcode' = 2
            /\ pc' = "done"
       ELSE /\ pc' = "load"
            /\ UNCHANGED <<stderr, exitcode>>
  /\ UNCHANGED <<argv, args, reads, t, nres, stdout>>
  /\ UNCHANGED notCli

\* t = mdt.load(args.inpcrd, top=args.prmtop): the files are read; the library
\* either returns the structure or raises, which ends the process
Load ==
  /\ pc = "load"
  /\ reads' = reads \cup {args.inpcrd, args.prmtop}
  /\ \/ /\ t' \in Structures
        /\ pc' = "select"
        /\ UNCHANGED <<stderr, exitcode>>
     \/ /\ stderr' = Append(stderr, "Traceback")
        /\ exitcode' = 1
        /\ pc' = "done"
        /\ UNCHANGED t
  /\ UNCHANGED <<argv, args, nres, stdout>>
  /\ UNCHANGED notCli

\* t_solute = t.atom_slice(t.topology.select('not water')); nres = t_solute.n_residues
Select ==
  /\ pc = "select"
  /\ nres' = n_residues(atom_slice(t, select_not_water(t)))
  /\ pc' = "render"
  /\ UNCHANGED <<argv, args, reads, t, stdout, stderr, exitcode>>
  /\ UNCHANGED notCli

\* script = f"""..."""; print(script)
PrintScript ==
  /\ pc = "render"
  /\ stdout' = stdout \o Render(args, nres)
  /\ exitcode' = 0
  /\ pc' = "done"
  /\ UNCHANGED <<argv, args, reads, t, nres, stderr>>
  /\ UNCHANGED notCli

Next ==
  \/ ParseOption
  \/ ParseVersion
  \/ ParseEnd
  \/ Load
  \/ Select
  \/ PrintScript

Spec == Init /\ [][Next]_vars


----------------------------------------------------------------------------
(* bash reading the printed script.                                        *)
(* bash reads a script a line at a time.  At top level a line is blank, a  *)
(* comment, an assignment, the opener of a here-document or some other     *)
(* command.  After an opener `cat > stepN.in <<EOF` every line up to one   *)
(* that is exactly `EOF` (no blank before or after it: the opener is <<,   *)
(* not <<-) is text for stepN.in, with parameters and command              *)
(* substitutions expanded since the delimiter is unquoted.  When the input *)
(* ends first, bash warns and the here-document is what was read.          *)

O(cmd) == <<"O", cmd>>   \* the output of a command substitution

RECURSIVE ExpandFrom(_, _, _, _, _)
\* ps[k..] expanded under e: $name gives its value, `cmd` gives the command's
\* output; incmd tells whether k lies within backquotes, cmd is the command so far
ExpandFrom(ps, k, e, incmd, cmd) ==
  IF k > Len(ps) THEN (IF incmd THEN <<BQ>> \o cmd ELSE <<>>)
  ELSE LET p   == ps[k]
           val == IF Kind(p) = "V" THEN e[p[2]] ELSE <<p>>
       IN  IF Kind(p) = "B"
             THEN IF incmd THEN <<O(cmd)>> \o ExpandFrom(ps, k + 1, e, FALSE, <<>>)
                           ELSE ExpandFrom(ps, k + 1, e, TRUE, <<>>)
             ELSE IF incmd THEN ExpandFrom(ps, k + 1, e, TRUE, cmd \o val)
                           ELSE val \o ExpandFrom(ps, k + 1, e, FALSE, <<>>)

Expand(ps, e) == ExpandFrom(ps, 1, e, FALSE, <<>>)

\* index of the first piece of ps at or after k that is in the set stop (Len+1: none)
RECURSIVE FirstAt(_, _, _)
FirstAt(ps, k, stop) ==
  IF k > Len(ps) \/ ps[k] \in stop THEN k ELSE FirstAt(ps, k + 1, stop)

DQ == L("\"")
Blank == L(" ")

IsBlankLine(line)   == line.txt = <<>>
IsComment(line)     == line.txt # <<>> /\ line.txt[1] = L("#")
IsAssignment(line)  == line.txt # <<>> /\ Kind(line.txt[1]) = "A"

\* `cat > stepN.in <<EOF`
IsOpener(line) ==
  /\ Len(line.txt) = 3
  /\ line.txt[1] = L("cat > step")
  /\ Kind(line.txt[2]) = "N"
  /\ line.txt[3] = L(".in <<EOF")

RECURSIVE IntVal(_)
\* the number a digit sequence denotes
IntVal(ds) == IF ds = <<>> THEN 0 ELSE 10 * IntVal(SubSeq(ds, 1, Len(ds) - 1)) + ds[Len(ds)]

OpenerStep(line) == IntVal(line.txt[2][2])

Steps == 1..9

OpenerLine(txt, s) ==
  CHOOSE k \in 1..Len(txt) : IsOpener(txt[k]) /\ OpenerStep(txt[k]) = s

\* the delimiter line of <<EOF: exactly the word, at column 0
IsDelimiter(line) == line = Ln(0, <<L("EOF")>>)

\* faulty variant of AssignedValue: an unquoted value runs to the end of the line
AssignedValueToEndOfLine(line, e) ==
  LET ps == line.txt
  IN  IF Len(ps) >= 2 /\ ps[2] = DQ
        THEN Expand(SubSeq(ps, 3, FirstAt(ps, 3, {DQ}) - 1), e)
        ELSE Expand(SubSeq(ps, 2, Len(ps)), e)

\* the value an assignment line gives its parameter: a double-quoted word runs to
\* the closing quote, an unquoted one to the first blank
AssignedValue(line, e) ==
  LET ps == line.txt
  IN  IF Len(ps) >= 2 /\ ps[2] = DQ
        THEN Expand(SubSeq(ps, 3, FirstAt(ps, 3, {DQ}) - 1), e)
        ELSE Expand(SubSeq(ps, 2, FirstAt(ps, 2, {Blank}) - 1), e)

ExpandLine(line, e) == Ln(line.ind, Expand(line.txt, e))

notShell == <<pc, argv, args, reads, t, nres, stdout, stderr, exitcode, loopVars>>

\* the printed script is handed to bash
BashStart ==
  /\ pc = "done" /\ exitcode = 0 /\ reads # {} /\ mode = "idle"
  /\ script' = stdout
  /\ mode' = "top"
  /\ env' = FreshEnv
  /\ UNCHANGED <<lineno, target, body, infiles, scanned, written, warned>>
  /\ UNCHANGED notShell

\* bash reads one line at top level
ShellTopLine ==
  /\ mode = "top" /\ lineno < Len(script)
  /\ LET line == script[lineno + 1]
     IN  /\ lineno' = lineno + 1
         /\ scanned' = Append(scanned, "top")
         /\ written' = Append(written, <<>>)
         /\ IF IsBlankLine(line) \/ IsComment(line)
              THEN UNCHANGED <<mode, target, env>>
              ELSE IF IsAssignment(line)
                THEN /\ env' = [env EXCEPT ![line.txt[1][2]] = AssignedValue(line, env),
                                           !["?"] = Zero]
                     /\ UNCHANGED <<mode, target>>
                ELSE IF IsOpener(line)
                  THEN /\ mode' = "heredoc"
                       /\ target' = OpenerStep(line)
                       /\ UNCHANGED env
                  ELSE \* the first command of the driving section
                       /\ mode' = "commands"
                       /\ UNCHANGED <<target, env>>
  /\ UNCHANGED <<script, body, infiles, warned>>
  /\ UNCHANGED notShell

\* bash reads one line of an open here-document
ShellHeredocLine ==
  /\ mode = "heredoc" /\ lineno < Len(script)
  /\ LET line == script[lineno + 1]
     IN  /\ lineno' = lineno + 1
         /\ scanned' = Append(scanned, "body")
         /\ IF IsDelimiter(line)
              THEN \* cat runs with the text collected
                   /\ infiles' = [k \in DOMAIN infiles \cup {target} |->
                                    IF k = target THEN body ELSE infiles[k]]
                   /\ written' = Append(written, <<>>)
                   /\ mode' = "top"
                   /\ target' = 0
                   /\ body' = <<>>
              ELSE /\ body' = Append(body, ExpandLine(line, env))
                   /\ written' = Append(written, <<ExpandLine(line, env)>>)
                   /\ UNCHANGED <<infiles, mode, target>>
  /\ UNCHANGED <<script, env, warned>>
  /\ UNCHANGED notShell

\* the input ends
ShellEndOfInput ==
  /\ mode \in {"top", "heredoc"} /\ lineno = Len(script)
  /\ IF mode = "heredoc"
       THEN \* "here-document delimited by end-of-file (wanted `EOF')"
            /\ warned' = TRUE
            /\ infiles' = [k \in DOMAIN infiles \cup {target} |->
                             IF k = target THEN body ELSE infiles[k]]
       ELSE UNCHANGED <<warned, infiles>>
  /\ mode' = "end"
  /\ UNCHANGED <<script, lineno, target, body, scanned, written, env>>
  /\ UNCHANGED notShell

MaxCount == 12   \* largest residue count rendered

\* a structure with n non-water residues, as mesmy_cli holds it when it renders
StructureOf(n) == [r \in 1..(n + 1) |-> [water |-> (r = n + 1), natoms |-> 1]]

InitShell ==
  /\ pc = "render"
  /\ argv = <<>>
  /\ args \in [inpcrd : Paths, prmtop : Paths]
  /\ reads = {args.inpcrd, args.prmtop}
  /\ nres \in 0..MaxCount
  /\ t = StructureOf(nres)
  /\ stdout = <<>> /\ stderr = <<>> /\ exitcode = -1
  /\ ShellIdle /\ env = FreshEnv /\ LoopIdle

NextShell ==
  \/ PrintScript
  \/ BashStart
  \/ ShellTopLine
  \/ ShellHeredocLine
  \/ ShellEndOfInput

SpecShell == InitShell /\ [][NextShell]_vars


----------------------------------------------------------------------------
(* The driving loops of the generated script (output lines 129-210, source *)
(* lines 153-237), executed as written.  One action is one iteration of a  *)
(* loop: the test of $RUN.out, the engine run if called for, the check of  *)
(* its log, and the hand-over of the restart file to the next step.        *)

OutKinds == {"absent", "nomarker", "marker"}   \* marker: holds 'Total wall time'

StepName(k) == <<L("step"), N(Digits(k), <<>>)>>

RECURSIVE RunAssignments(_, _, _, _)
\* the parameters after the assignment lines among txt[k..last], starting from e
RunAssignments(txt, k, last, e) ==
  IF k > last THEN e
  ELSE RunAssignments(txt, k + 1, last,
         IF IsAssignment(txt[k])
           THEN [e EXCEPT ![txt[k].txt[1][2]] = AssignedValue(txt[k], e)]
           ELSE e)

\* the head of the template: the lines before the first opener
HeaderLines == SubSeq(Template, 1, OpenerLine(Template, 1) - 1)

\* the parameters once the head of the printed script has run
HeaderEnv(ns, n) ==
  LET txt == [k \in 1..Len(HeaderLines) |-> RenderLine(HeaderLines[k], ns, n)]
  IN  RunAssignments(txt, 1, Len(txt), FreshEnv)

RECURSIVE SplitAt(_, _, _)
\* field splitting: ps[k..] cut at its blanks, cur being the field under way
SplitAt(ps, k, cur) ==
  IF k > Len(ps) THEN (IF cur = <<>> THEN <<>> ELSE <<cur>>)
  ELSE IF ps[k] = Blank
    THEN (IF cur = <<>> THEN <<>> ELSE <<cur>>) \o SplitAt(ps, k + 1, <<>>)
    ELSE SplitAt(ps, k + 1, Append(cur, ps[k]))

\* the words an unquoted word of a command gives once expanded
Fields(word, e) == SplitAt(Expand(word, e), 1, <<>>)

\* the argument list of a command, from its words
Arguments(words, e) == Flatten([k \in 1..Len(words) |-> Fields(words[k], e)])

\* $PMEMD -O -i $RUN.in -p $prmtop_file -c $inpcrd_file -ref <ref> -o $RUN.out
\*   -x $RUN.nc -r $RUN.ncrst -inf $RUN.mdinfo
EngineCommand(ref) ==
  << <<V("PMEMD")>>, <<L("-O")>>,
     <<L("-i")>>, <<V("RUN"), L(".in")>>,
     <<L("-p")>>, <<V("prmtop_file")>>,
     <<L("-c")>>, <<V("inpcrd_file")>>,
     <<L("-ref")>>, <<V(ref)>>,
     <<L("-o")>>, <<V("RUN"), L(".out")>>,
     <<L("-x")>>, <<V("RUN"), L(".nc")>>,
     <<L("-r")>>, <<V("RUN"), L(".ncrst")>>,
     <<L("-inf")>>, <<V("RUN"), L(".mdinfo")>> >>

\* the exit status of grep -q 'Total wall time' $RUN.out
Grep(kind) == CASE kind = "marker" -> 0 [] kind = "nomarker" -> 1 [] kind = "absent" -> 2

\* faulty variant of Runme: an incomplete log is taken for a complete one
RunmeOnlyWhenAbsent(kind) == IF kind = "absent" THEN 1 ELSE 0

\* runme: 1 when $RUN.out is no file or grep does not find the marker in it
Runme(kind) == IF kind = "absent" THEN 1 ELSE IF Grep(kind) # 0 THEN 1 ELSE 0

\* what an engine run may leave as $RUN.out: a complete log, an incomplete one, or
\* the file as it was (the executable did not start)
EngineOutcomes(kind) == {"marker", "nomarker", kind}

\* faulty variant of ExitsOnFailure: the script goes on after a failed run
NeverExits(retval) == FALSE

\* exit $retval after a failed run (fi otherwise)
ExitsOnFailure(retval) == retval # 0

notLoop == <<cliVars, shellVars>>

\* one iteration of either loop for step k, the reference coordinates being $ref,
\* going on to position after when k is the last step of its loop
Iteration(k, ref, last, after) ==
  LET e1 == [env EXCEPT !["RUN"] = StepName(k)]
      handover(e) == [e EXCEPT !["inpcrd_file"] = Expand(<<V("RUN"), L(".ncrst")>>, e)]
      cmd == Arguments(EngineCommand(ref), e1)
      next == /\ lpc' = IF k = last THEN after ELSE lpc
              /\ run' = k + 1
              /\ UNCHANGED status
  IN  IF Runme(out[k]) = 1
        THEN \E o \in EngineOutcomes(out[k]) :
               /\ invoked' = Append(invoked, k)
               /\ command' = cmd
               /\ out' = [out EXCEPT ![k] = o]
               /\ IF ExitsOnFailure(Grep(o))
                    THEN /\ status' = Grep(o)
                         /\ lpc' = "exited"
                         /\ env' = [e1 EXCEPT !["runme"] = <<N(<<1>>, <<>>)>>,
                                              !["retval"] = <<N(Digits(Grep(o)), <<>>)>>]
                         /\ UNCHANGED run
                    ELSE /\ env' = handover([e1 EXCEPT !["runme"] = <<N(<<1>>, <<>>)>>,
                                                       !["retval"] = Zero])
                         /\ next
        ELSE /\ env' = handover([e1 EXCEPT !["runme"] = Zero, !["retval"] = Zero])
             /\ next
             /\ UNCHANGED <<invoked, command, out>>

\* START="`date +%s.%N`"
LoopStart ==
  /\ lpc = "start"
  /\ env' = [env EXCEPT !["START"] = <<O(<<L("date +%s.%N")>>)>>]
  /\ lpc' = "minimization"
  /\ run' = 1
  /\ UNCHANGED <<out, out0, invoked, command, status, execs>>
  /\ UNCHANGED notLoop

\* for RUN in step1 step2 step3 step4 step5 ; do ... done
MinimizationStep ==
  /\ lpc = "minimization" /\ run \in 1..5
  /\ Iteration(run, "inpcrd_file", 5, "reference")
  /\ UNCHANGED <<out0, execs>>
  /\ UNCHANGED notLoop

\* REF=$inpcrd_file
SetReference ==
  /\ lpc = "reference"
  /\ env' = [env EXCEPT !["REF"] = Expand(<<V("inpcrd_file")>>, env)]
  /\ lpc' = "equilibration"
  /\ UNCHANGED <<run, out, out0, invoked, command, status, execs>>
  /\ UNCHANGED notLoop

\* for RUN in step6 step7 step8 step9 ; do ... done
EquilibrationStep ==
  /\ lpc = "equilibration" /\ run \in 6..9
  /\ Iteration(run, "REF", 9, "finish")
  /\ UNCHANGED <<out0, execs>>
  /\ UNCHANGED notLoop

\* sed -i ... step9.ncrst; STOP=...; TIMING=...; echo ...; exit 0
Finish ==
  /\ lpc = "finish"
  /\ env' = [env EXCEPT !["STOP"] = <<O(<<L("date +%s.%N")>>)>>]
  /\ status' = 0
  /\ lpc' = "exited"
  /\ UNCHANGED <<run, out, out0, invoked, command, execs>>
  /\ UNCHANGED notLoop

\* the script has run through and the user runs it again, the files being as it left
\* them (a run after a failure starts from files that InitLoop covers)
ReExecute ==
  /\ lpc = "exited" /\ status = 0 /\ execs < MaxExecs
  /\ env' = HeaderEnv(args, nres)
  /\ lpc' = "start"
  /\ run' = 0
  /\ invoked' = <<>>
  /\ command' = <<>>
  /\ status' = -1
  /\ out0' = out
  /\ execs' = execs + 1
  /\ UNCHANGED out
  /\ UNCHANGED notLoop

\* the script of a run of mesmy_cli is being executed and has reached START=; the
\* stepN.out files are whatever earlier runs left
InitLoop ==
  /\ pc = "done" /\ exitcode = 0
  /\ argv = <<>>
  /\ args \in PathPairs
  /\ reads = {args.inpcrd, args.prmtop}
  /\ nres = 1 /\ t = StructureOf(nres)
  /\ stdout = <<>> /\ stderr = <<>>
  /\ ShellIdle
  /\ env = HeaderEnv(args, nres)
  /\ lpc = "start" /\ run = 0
  /\ out \in [Steps -> OutKinds]
  /\ out0 = out
  /\ invoked = <<>> /\ command = <<>> /\ status = -1
  /\ execs = 1

NextLoop ==
  \/ LoopStart
  \/ MinimizationStep
  \/ SetReference
  \/ EquilibrationStep
  \/ Finish
  \/ ReExecute

SpecLoop == InitLoop /\ [][NextLoop]_vars


----------------------------------------------------------------------------
(* Reading the input blocks of a script text, as their author laid them    *)
(* out: the block of step s runs from its opener to the next line whose    *)
(* text is EOF, whatever its indentation.                                  *)

BlockEnd(txt, s) ==
  CHOOSE k \in 1..Len(txt) :
    /\ k > OpenerLine(txt, s)
    /\ txt[k].txt = <<L("EOF")>>
    /\ \A j \in (OpenerLine(txt, s) + 1)..(k - 1) : txt[j].txt # <<L("EOF")>>

BlockLines(txt, s) == (OpenerLine(txt, s) + 1)..(BlockEnd(txt, s) - 1)

\* the lines of step s's block that set a restraint mask
MaskLines(txt, s) ==
  {k \in BlockLines(txt, s) :
     /\ Len(txt[k].txt) >= 5
     /\ txt[k].txt[1] = L("ntr = ") /\ txt[k].txt[2] = N(<<1>>, <<>>)
     /\ txt[k].txt[3] = L(", restraintmask = ")}

Restrained(txt, s) == MaskLines(txt, s) # {}

\* the mask of a mask line: what stands between the quotes after `restraintmask = `
MaskOf(line) ==
  LET ps == line.txt
  IN  SubSeq(ps, 5, FirstAt(ps, 5, {ps[4]}) - 1)

HeavyAtomMask(n) == <<L(":"), N(<<1>>, <<>>), L("-")>> \o n \o <<L(" & !@H=")>>
BackboneMask(n)  == <<L(":"), N(<<1>>, <<>>), L("-")>> \o n \o <<L("@H,N,CA,HA,C,O")>>

\* the line that sets the run control of an MD stage: imin = 0, nstlim = .., dt = ..
ControlLines(txt, s) ==
  {k \in BlockLines(txt, s) :
     /\ Len(txt[k].txt) >= 6
     /\ txt[k].txt[1] = L("imin = ") /\ txt[k].txt[2] = N(<<0>>, <<>>)
     /\ txt[k].txt[3] = L(", nstlim = ")
     /\ txt[k].txt[5] \in {L(", dt="), L(", dt = ")}}

IsMDStage(txt, s) == ControlLines(txt, s) # {}

Pow10(n) == CASE n = 0 -> 1 [] n = 1 -> 10 [] n = 2 -> 100 [] n = 3 -> 1000

\* a decimal number of picoseconds, in femtoseconds (at most three fraction digits)
Femtoseconds(num) == IntVal(num[2]) * 1000 + IntVal(num[3]) * Pow10(3 - Len(num[3]))

\* nstlim x dt of step s's block, in femtoseconds
SimulatedFs(txt, s) ==
  LET c == txt[CHOOSE k \in ControlLines(txt, s) : TRUE].txt
  IN  IntVal(c[4][2]) * Femtoseconds(c[6])

\* the durations a line states: every number followed by " ps", in femtoseconds
StatedFs(line) ==
  {Femtoseconds(line.txt[j]) : j \in
     {i \in 1..(Len(line.txt) - 1) :
        /\ Kind(line.txt[i]) = "N"
        /\ line.txt[i + 1] \in {L(" ps"), L(" ps dt=")}}}

\* the comment above the opener of step s, and the title line under it
CommentLine(txt, s) == txt[OpenerLine(txt, s) - 1]
TitleLine(txt, s)   == txt[OpenerLine(txt, s) + 1]

----------------------------------------------------------------------------
(* Claims about mesmy_cli (Spec). *)

Waters(top)    == {r \in 1..Len(top) : top[r].water}
NonWaters(top) == {r \in 1..Len(top) : ~top[r].water}

\* C1: for a structure of R residues, W of them water, nres = R - W wherever the
\* water residues sit in file order; so nres <= R, and nres = 0 when all are water.
C1_CountAdditivity ==
  pc \in {"render", "done"} /\ t # <<>> =>
    /\ nres = Len(t) - Cardinality(Waters(t))
    /\ nres <= Len(t)
    /\ (Waters(t) = 1..Len(t) => nres = 0)

\* water first, solute in the middle, water last: one solute residue counted
C1_Witness ==
  /\ pc = "done" /\ Len(t) = 3
  /\ t[1].water /\ ~t[2].water /\ t[3].water
  /\ t[2].natoms = 2
  /\ nres = 1

\* C5: the files are read only after parse_args succeeded with both -i and -p; a
\* run without -i (and not cut short by --version) ends non-zero with a usage
\* diagnostic; a run with --version prints 1.0.0 and exits 0; neither reads a file
\* or prints any script text.
InvocationHas(flag) ==
  \/ flag = "-i" /\ args.inpcrd # None
  \/ flag = "-p" /\ args.prmtop # None
  \/ \E k \in 1..Len(argv) : argv[k].flag = flag

WaterPrecedesSolute(top) ==
  \E i, j \in 1..Len(top) : i < j /\ top[i].water /\ ~top[j].water

C10_RangeCoversSolute ==
  pc \in {"render", "done"} /\ t # <<>> =>
    /\ (1..nres = NonWaters(t)) <=> ~WaterPrecedesSolute(t)
    /\ WaterPrecedesSolute(t) =>
         /\ \E r \in 1..nres : r \in Waters(t)
         /\ \E r \in NonWaters(t) : r \notin 1..nres

\* water, then solute: the range 1..1 names the water residue
C10_Witness ==
  /\ pc = "done" /\ Len(t) = 2
  /\ t[1].water /\ ~t[2].water
  /\ nres = 1 /\ exitcode = 0

----------------------------------------------------------------------------
(* Claims about the printed script (SpecShell). *)

FieldsOf(line) == {j \in 1..Len(line.txt) : Kind(line.txt[j]) = "F"}

IsDecimal(ds, n) ==
  /\ Len(ds) >= 1
  /\ \A j \in 1..Len(ds) : ds[j] \in 0..9
  /\ Len(ds) = 1 \/ ds[1] # 0
  /\ IntVal(ds) = n

\* C2: the printed script holds three substituted values, the topology path in the
\* prmtop_file= line, the coordinate path in the inpcrd_file= line and the residue
\* count in the solute= line, one each; every other line is the template's.
C2_ThreeSubstitutions ==
  pc = "done" =>
    /\ Len(stdout) = Len(Template)
    /\ \A k \in 1..Len(Template) :
         IF k \in {12, 13, 14}
           THEN Cardinality(FieldsOf(Template[k])) = 1
           ELSE FieldsOf(Template[k]) = {} /\ stdout[k] = Template[k]
    /\ stdout[12] = Ln(4, <<A("prmtop_file"), DQ>> \o args.prmtop \o <<DQ>>)
    /\ stdout[13] = Ln(4, <<A("inpcrd_file"), DQ>> \o args.inpcrd \o <<DQ>>)
    /\ stdout[14].ind = 4
    /\ Len(stdout[14].txt) = 5
    /\ stdout[14].txt[1] = A("solute")
    /\ Kind(stdout[14].txt[2]) = "N"
    /\ IsDecimal(stdout[14].txt[2][2], nres) /\ stdout[14].txt[2][3] = <<>>
    /\ SubSeq(stdout[14].txt, 3, 5) = <<Blank, L("#"), L(" number of residues in solute")>>

\* a two-digit count and two different paths, one with a blank
C2_Witness ==
  /\ pc = "done" /\ nres = 10
  /\ args.prmtop = <<L("my"), L(" "), L("sys.top")>>
  /\ args.inpcrd = <<L("sys.crd")>>
  /\ Len(stdout) = Len(Template)

SoluteIsZero == env["solute"] = Zero

\* C3 as claimed: with a count of 0 the mask of every restrained stage reads
\* :1-0 & !@H=
C3_AsClaimed ==
  mode = "end" /\ nres = 0 =>
    \A s \in Steps : \A k \in MaskLines(script, s) :
      /\ written[k] # <<>>
      /\ MaskOf(written[k][1]) = HeavyAtomMask(Zero)

\* C3, amended: with a count of 0 the mask line of stages 1, 2, 3, 4, 6 and 7 reads
\* :1-0 & !@H= and that of stage 8, which restrains the backbone, reads
\* :1-0@H,N,CA,HA,C,O; stages 5 and 9 have none.  The template has no case for
\* zero: but for the number in the solute= line the script is the one printed for
\* any other count.
C3_ZeroCountMasks ==
  mode = "end" /\ nres = 0 =>
    /\ SoluteIsZero
    /\ {s \in Steps : Restrained(script, s)} = {1, 2, 3, 4, 6, 7, 8}
    /\ \A s \in Steps : \A k \in MaskLines(script, s) :
         /\ written[k] # <<>>
         /\ MaskOf(written[k][1]) =
              IF s = 8 THEN BackboneMask(Zero) ELSE HeavyAtomMask(Zero)
    /\ \A k \in 1..Len(script) :
         IF k = 14
           THEN script[k].txt = <<A("solute"), N(<<0>>, <<>>), Blank, L("#"),
                                   L(" number of residues in solute")>>
           ELSE script[k] = RenderLine(Template[k], args, 1)

C3_Witness ==
  /\ mode = "end" /\ nres = 0
  /\ written[OpenerLine(script, 8) + 10] # <<>>
  /\ OpenerLine(script, 8) + 10 \in MaskLines(script, 8)

DrivingLines(txt) ==
  LET first == CHOOSE k \in 1..Len(txt) : txt[k].txt # <<>> /\ txt[k].txt[1] = A("START")
      last  == CHOOSE k \in 1..Len(txt) : txt[k].txt = <<L("exit "), N(<<0>>, <<>>)>>
  IN  first..last

\* C4: each of the nine openers is read as a command, its here-document closed by
\* its own delimiter line before the next opener, and the lines from START= to
\* exit 0 are read as commands, not as here-document text.
C4_NineHeredocBlocks ==
  /\ \A k \in 1..lineno :
       IsOpener(script[k]) \/ k \in DrivingLines(script) => scanned[k] = "top"
  /\ mode = "end" => (DOMAIN infiles = Steps /\ ~warned)

\* C9: for every MD stage, each duration its comment or title states equals
\* nstlim x dt of its input block.
C9_StatedDurations ==
  pc = "done" =>
    /\ {s \in Steps : IsMDStage(stdout, s)} = {2, 6, 7, 8, 9}
    /\ \A s \in {2, 6, 7, 8, 9} :
         /\ StatedFs(TitleLine(stdout, s)) # {}
         /\ \A d \in StatedFs(CommentLine(stdout, s)) \cup StatedFs(TitleLine(stdout, s)) :
              d = SimulatedFs(stdout, s)


----------------------------------------------------------------------------
(* Claims about the driving loops (SpecLoop). *)

Failed == lpc = "exited" /\ status \notin {0, -1}

\* the steps whose iteration has run in this execution
Reached == IF Failed THEN 1..run ELSE 1..(run - 1)

InvokedSteps == {invoked[i] : i \in 1..Len(invoked)}

\* C6: the engine is run for step N exactly when the loop, reaching N, finds
\* stepN.out absent or without the marker; a step whose log holds the marker is
\* skipped; no step is run twice in an execution; an execution that starts with all
\* nine logs complete runs the engine for none and exits 0.
C6_RunIffIncomplete ==
  lpc # "idle" =>
    /\ \A s \in Reached : (s \in InvokedSteps) <=> (out0[s] # "marker")
    /\ \A s \in Reached : out0[s] = "marker" => out[s] = "marker"
    /\ InvokedSteps \subseteq Reached
    /\ \A i, j \in 1..Len(invoked) : i # j => invoked[i] # invoked[j]
    /\ (\A s \in Steps : out0[s] = "marker") /\ lpc = "exited" =>
         invoked = <<>> /\ status = 0

\* the script ran through, and run again it finds nothing to do
C6_Witness ==
  /\ execs = 2 /\ lpc = "exited" /\ status = 0
  /\ \A s \in Steps : out0[s] = "marker"
  /\ invoked = <<>> /\ run = 10

\* C7: the steps are taken in the order 1..5, 6..9; the engine is run for step k
\* only when the logs of steps 1..k-1 all hold the marker; when the log of a step
\* just run lacks the marker the script exits at once, non-zero, and runs nothing
\* more; exit 0 is reached only with all nine logs complete.
C7_FailFastInOrder ==
  lpc # "idle" =>
    /\ lpc = "minimization" => run \in 1..5
    /\ lpc = "equilibration" => run \in 6..9
    /\ \A i, j \in 1..Len(invoked) : i < j => invoked[i] < invoked[j]
    /\ \A i \in 1..Len(invoked) : \A s \in 1..(invoked[i] - 1) : out[s] = "marker"
    /\ \A i \in 1..Len(invoked) :
         out[invoked[i]] # "marker" => i = Len(invoked) /\ Failed /\ run = invoked[i]
    /\ lpc = "exited" /\ status = 0 => \A s \in Steps : out[s] = "marker"

\* step2 and step7 were run; step7's log came out incomplete and the script stopped
C7_Witness ==
  /\ lpc = "exited" /\ status = 1
  /\ invoked = <<2, 7>>
  /\ out[7] = "nomarker" /\ out[8] = "absent" /\ out[9] = "marker"

\* the argument following the option flag in an argument list
OptionValue(av, flag) == av[(CHOOSE i \in 1..(Len(av) - 1) : av[i] = <<L(flag)>>) + 1]

RestartOf(k) == StepName(k) \o <<L(".ncrst")>>

\* C8: step1 is run with -c the user's coordinate file, step k > 1 with -c
\* step(k-1).ncrst; -ref is the -c file for steps 1..5 and step5.ncrst for steps
\* 6..9; -p is the user's topology file for every step.
C8_EngineArguments ==
  command # <<>> =>
    LET k == invoked[Len(invoked)]
        c == IF k = 1 THEN args.inpcrd ELSE RestartOf(k - 1)
    IN  /\ OptionValue(command, "-c") = c
        /\ OptionValue(command, "-ref") = IF k <= 5 THEN c ELSE RestartOf(5)
        /\ OptionValue(command, "-p") = args.prmtop

=============================================================================
